---- MODULE Spec2Model ----
(***************************************************************************)
(* State-machine model of the limit solver's App component (src/App.tsx)  *)
(* and of the solver service (src/services/geminiService.ts).             *)
(*                                                                         *)
(* One action per event handler, effect or promise continuation.  A       *)
(* handler that awaits a task (the solver call, canvas.toBlob) is split   *)
(* at that await; an await on an already settled promise (fileToUrl) is a *)
(* microtask and stays inside the action.                                  *)
(***************************************************************************)
EXTENDS Integers, Sequences, FiniteSets, TLC

(***************************************************************************)
(* Bounds of the model.                                                    *)
(***************************************************************************)
\* One run takes at most MaxSteps of the steps that make the state grow: a
\* file pick, a crop confirm that reaches canvas.toBlob, a solve request, a
\* deletion of one entry, a failed write of the store.
MaxSteps == 2

(***************************************************************************)
(* JavaScript values.                                                      *)
(***************************************************************************)
Null == [k |-> "null"]
Undefined == [k |-> "undefined"]
Str(s) == [k |-> "str", s |-> s]
Obj(v) == [k |-> "obj", v |-> v]
\* A MIME type string, kept apart from the character sequences of texts.
Mime(t) == [k |-> "mime", t |-> t]

\* JavaScript truthiness of the values used here ("" is falsy).
Truthy(v) ==
    /\ v.k \notin {"null", "undefined"}
    /\ ~(v.k = "str" /\ v.s = <<>>)
    /\ ~(v.k = "mime" /\ v.t = "")

Min(a, b) == IF a < b THEN a ELSE b

\* Array.prototype.slice(0, n)
Slice0(s, n) == SubSeq(s, 1, Min(n, Len(s)))

(***************************************************************************)
(* Texts are sequences of characters.                                      *)
(***************************************************************************)
NL == "\n"

\* String.prototype.split('\n'): always at least one line.
RECURSIVE SplitLines(_)
SplitLines(t) ==
    IF \A i \in 1..Len(t) : t[i] # NL THEN <<t>>
    ELSE LET i == CHOOSE j \in 1..Len(t) :
                      t[j] = NL /\ \A m \in 1..(j - 1) : t[m] # NL
         IN  <<SubSeq(t, 1, i - 1)>> \o SplitLines(SubSeq(t, i + 1, Len(t)))

Includes(line, c) == \E i \in 1..Len(line) : line[i] = c

SnippetMaxLen == 100
\* The backquote character is written as the atom "bq".
MarkupChars == {"*", "bq", "_", "#"}
Whitespace == {" ", NL}
PlaceholderSnippet == <<"P", "r", "o", "b", "l", "e", "m">>

\* String.prototype.replace with the global markup character class
StripMarkup(line) == SelectSeq(line, LAMBDA c : c \notin MarkupChars)

\* String.prototype.trim
RECURSIVE TrimStart(_)
TrimStart(s) == IF s # <<>> /\ Head(s) \in Whitespace THEN TrimStart(Tail(s)) ELSE s
RECURSIVE TrimEnd(_)
TrimEnd(s) ==
    IF s # <<>> /\ s[Len(s)] \in Whitespace THEN TrimEnd(SubSeq(s, 1, Len(s) - 1)) ELSE s
Trim(s) == TrimEnd(TrimStart(s))

\* Mutant of extractSnippet: a line of exactly 100 characters qualifies.
extractSnippet_CeilingInclusive(solutionText) ==
    LET lines == SplitLines(solutionText)
        Qualifies(line) == Includes(line, "$") /\ Len(line) <= SnippetMaxLen
        found == SelectSeq(lines, Qualifies)
        snippetLine == IF found # <<>> THEN Head(found)
                       ELSE IF lines[1] # <<>> THEN lines[1]
                       ELSE PlaceholderSnippet
    IN  Trim(StripMarkup(snippetLine))

\* handleSolve.extractSnippet
extractSnippet(solutionText) ==
    LET lines == SplitLines(solutionText)
        Qualifies(line) == Includes(line, "$") /\ Len(line) < SnippetMaxLen
        found == SelectSeq(lines, Qualifies)
        snippetLine == IF found # <<>> THEN Head(found)
                       ELSE IF lines[1] # <<>> THEN lines[1]
                       ELSE PlaceholderSnippet
    IN  Trim(StripMarkup(snippetLine))

(***************************************************************************)
(* Data of the model.                                                      *)
(***************************************************************************)
\* Files the user can pick (File.type is the MIME type).
Files == {[name |-> "A", type |-> "image/png"], [name |-> "B", type |-> "image/jpeg"]}

\* Rectangles the crop widget can report through onComplete.
CropRects == {"R0", "R1"}

\* The rectangle a click without a drag gives has no area.
ZeroAreaRects == {"R0"}

\* The rectangle onImageLoad centres on an image: it depends on the
\* rendered size of the image.
DefaultRect == [A |-> "DA", B |-> "DB"]

\* Texts the remote model can answer with.
T1 == <<"#", "$", "x", "$", NL, "a">>
T2 == <<"o", "k">>

\* A line of n characters that starts with the inline-math delimiter.
MathLine(n) == [i \in 1..n |-> IF i = 1 THEN "$" ELSE "x"]

\* Texts that take extractSnippet through each of its branches: a first
\* line at the ceiling followed by a marked-up math line; a math line one
\* under the ceiling; a lone math line at the ceiling; no math line; an
\* empty first line; the empty text.
SnippetTexts ==
    { T1,
      MathLine(SnippetMaxLen) \o <<NL, " ", "*", "$", "y", "$", "_", " ">>,
      MathLine(SnippetMaxLen - 1) \o <<NL, "$", "z", "$">>,
      MathLine(SnippetMaxLen),
      <<" ", "#", "a", "b", " ", NL, "c">>,
      <<NL, "a">>,
      <<>> }

\* Messages of the exceptions the remote call can throw.
ApiErrorMessages == {<<"n", "e", "t">>}

ApiFailed(o) == o.k \in {"throwError", "throwOther"}

\* The two Khmer messages of solveLimitFromImage's catch block.
ServiceErrorPrefix == <<"A", "I", ":">>
ServiceUnknownError == <<"?">>

\* The fixed messages of handleSolve and handleCropConfirm.
SolveErrorMessage == Str(<<"solve-error">>)
CropErrorMessage == Str(<<"crop-error">>)

\* solveLimitFromImage: the value its promise resolves with.  It never
\* rejects: the catch block turns every exception into a returned string.
solveLimitFromImage(o) ==
    CASE o.k = "text" -> Str(o.text)
      [] o.k = "notext" -> Undefined
      [] o.k = "throwError" -> Str(ServiceErrorPrefix \o o.message)
      [] o.k = "throwOther" -> Str(ServiceUnknownError)

(***************************************************************************)
(* Images, canvas encodings and URLs.                                      *)
(***************************************************************************)
\* The encoder's quality argument matters for the lossy types only.
Quality(mimeType, q) == IF mimeType = "image/png" THEN "lossless" ELSE q

\* The empty string: what is left of "data:," after the comma.
EmptyPayload == [pixels |-> <<>>, quality |-> "none"]

\* canvas.toDataURL(mimeType).split(',')[1]: the drawn pixels at the
\* default quality; a canvas without pixels gives "data:,".
CanvasBase64(image, rect, mimeType) ==
    IF rect \in ZeroAreaRects THEN EmptyPayload
    ELSE [pixels |-> <<image, rect>>, quality |-> Quality(mimeType, "default")]

\* The blob canvas.toBlob(callback, mimeType, 1) makes: the same pixels at
\* quality 1.
CanvasBlob(image, rect, mimeType) ==
    [pixels |-> <<image, rect>>, quality |-> Quality(mimeType, "max")]

\* URL.createObjectURL: blob URL number n, and what it refers to.
BlobUrl(n, of) == [k |-> "blob", id |-> n, of |-> of]

\* The data URL handleSelectHistoryItem builds.
DataUrl(imageData) ==
    [k |-> "data", mimeType |-> imageData.mimeType, base64 |-> imageData.base64]

(***************************************************************************)
(* History entries and the durable store.                                  *)
(***************************************************************************)
HistoryCap == 20

HistoryEntry(id, imageData, text) ==
    [id |-> id, imageData |-> imageData,
     problemSnippet |-> extractSnippet(text), fullSolution |-> text]

\* Entry i (1 = newest) of a log of n entries written by an earlier run.
StoredEntry(i, n) ==
    HistoryEntry(n - i + 1,
                 [base64 |-> [pixels |-> <<"S", i % 2>>, quality |-> "lossless"],
                  mimeType |-> "image/png"],
                 IF i % 2 = 1 THEN T1 ELSE T2)

StoredLog(n) == [i \in 1..n |-> StoredEntry(i, n)]

\* Lengths of the logs the store may hold at startup.
StoredSizes == {0, 1, HistoryCap, HistoryCap + 1}

(***************************************************************************)
(* JSON.  A JSON text is kept as the tree of its tokens: a number is its   *)
(* decimal digits, a string its characters with the escapes JSON.stringify *)
(* writes, an object its members, an array its elements.                   *)
(***************************************************************************)
DigitChars == <<"0", "1", "2", "3", "4", "5", "6", "7", "8", "9">>

\* The decimal digits JSON.stringify writes for a non-negative integer.
RECURSIVE JsonDigits(_)
JsonDigits(n) ==
    IF n < 10 THEN <<DigitChars[n + 1]>>
    ELSE JsonDigits(n \div 10) \o <<DigitChars[(n % 10) + 1]>>

DigitValue(c) == (CHOOSE i \in DOMAIN DigitChars : DigitChars[i] = c) - 1

\* The number JSON.parse reads from decimal digits.
RECURSIVE JsonNumber(_)
JsonNumber(d) ==
    IF Len(d) = 1 THEN DigitValue(d[1])
    ELSE 10 * JsonNumber(SubSeq(d, 1, Len(d) - 1)) + DigitValue(d[Len(d)])

Backslash == "\\"
Quote == "\""

\* The characters JSON.stringify writes between the quotes of a string.
\* (The string is escaped half by half to keep the evaluation shallow.)
RECURSIVE JsonEscape(_)
JsonEscape(s) ==
    IF s = <<>> THEN <<>>
    ELSE IF Len(s) = 1
    THEN (CASE Head(s) = NL -> <<Backslash, "n">>
            [] Head(s) = Backslash -> <<Backslash, Backslash>>
            [] Head(s) = Quote -> <<Backslash, Quote>>
            [] OTHER -> <<Head(s)>>)
    ELSE JsonEscape(SubSeq(s, 1, Len(s) \div 2))
             \o JsonEscape(SubSeq(s, (Len(s) \div 2) + 1, Len(s)))

\* Position i of s holds the backslash that opens an escape: an odd number
\* of backslashes ends there.
EscapeStart(s, i) ==
    /\ s[i] = Backslash
    /\ Cardinality({j \in 1..i : \A k \in j..i : s[k] = Backslash}) % 2 = 1

\* Stands at the positions that give no character.
Dropped == ""

\* Mutant of JsonUnescape: the escape of a line feed is read as the letter.
JsonUnescape_KeepsLetter(s) ==
    LET read == [i \in 1..Len(s) |-> IF EscapeStart(s, i) THEN Dropped ELSE s[i]]
    IN  SelectSeq(read, LAMBDA c : c # Dropped)

\* The string JSON.parse reads from the characters between the quotes.
\* Nothing is read at the backslash that opens an escape, the escaped
\* character at the position after it, the character itself elsewhere.
JsonUnescape(s) ==
    LET read == [i \in 1..Len(s) |->
                    IF EscapeStart(s, i) THEN Dropped
                    ELSE IF i > 1 /\ EscapeStart(s, i - 1) /\ s[i] = "n" THEN NL
                    ELSE s[i]]
    IN  SelectSeq(read, LAMBDA c : c # Dropped)

\* JSON.stringify of one history entry.  The base64 payload and the MIME
\* type hold no character that JSON escapes.
JsonOfEntry(e) ==
    [k |-> "object",
     id |-> JsonDigits(e.id),
     imageData |-> [base64 |-> e.imageData.base64, mimeType |-> e.imageData.mimeType],
     problemSnippet |-> JsonEscape(e.problemSnippet),
     fullSolution |-> JsonEscape(e.fullSolution)]

\* JSON.parse of the object JsonOfEntry writes.
EntryOfJson(j) ==
    [id |-> JsonNumber(j.id),
     imageData |-> [base64 |-> j.imageData.base64, mimeType |-> j.imageData.mimeType],
     problemSnippet |-> JsonUnescape(j.problemSnippet),
     fullSolution |-> JsonUnescape(j.fullSolution)]

\* JSON.stringify of the history array, and JSON.parse of a stored text.
JSONstringify(h) ==
    [k |-> "text", json |-> TRUE,
     value |-> [k |-> "array", items |-> [i \in DOMAIN h |-> JsonOfEntry(h[i])]]]
JSONparses(item) == item.k = "text" /\ item.json
JSONparse(item) ==
    CASE item.value.k = "array" ->
             [i \in DOMAIN item.value.items |-> EntryOfJson(item.value.items[i])]
      [] item.value.k = "null" -> Null

\* Array.isArray of the value JSON.parse gives for a stored text.
ParsesToArray(item) == item.value.k = "array"

\* What localStorage.getItem('limitSolverHistory') can return at startup
\* after a run of this program: nothing, or a history array.  An
\* unparsable text stands for a store damaged from outside.
StoredContents ==
    {[k |-> "missing"], [k |-> "text", json |-> FALSE]}
        \cup {JSONstringify(StoredLog(n)) : n \in StoredSizes}

\* A stored text that is valid JSON and not an array: null.
NonArrayContents == {[k |-> "text", json |-> TRUE, value |-> [k |-> "null"]]}

\* Mutant of InsertEntry: the cap is applied one entry too late.
InsertEntry_SliceOffByOne(newEntry, prevHistory) ==
    Slice0(<<newEntry>> \o prevHistory, HistoryCap + 1)

\* setHistory's updater in handleSolve.
InsertEntry(newEntry, prevHistory) == Slice0(<<newEntry>> \o prevHistory, HistoryCap)

\* Mutant of DeleteEntry: without an entry of that id the last entry goes.
DeleteEntry_DropsLastIfAbsent(id, prev) ==
    IF \E i \in DOMAIN prev : prev[i].id = id
    THEN SelectSeq(prev, LAMBDA entry : entry.id # id)
    ELSE SubSeq(prev, 1, Len(prev) - 1)

\* setHistory's updater in handleDeleteHistoryEntry.
DeleteEntry(id, prev) == SelectSeq(prev, LAMBDA entry : entry.id # id)

(***************************************************************************)
(* State.                                                                  *)
(***************************************************************************)
VARIABLES
    imageBase64,        \* Null or Obj([base64, mimeType])
    imageUrl,           \* Null, a blob URL or a data URL
    solution,           \* Null, Undefined or Str(text)
    isLoading,
    error,              \* Null or Str(message)
    isCopied,
    history,            \* sequence of history entries, newest first
    uncroppedImageUrl,  \* Null or a blob URL
    isCropperOpen,
    originalMimeType,   \* Null or Mime(type)
    completedCrop,      \* Undefined or Obj(rect)
    crop,               \* Undefined or Obj(rect): the rectangle the widget shows
    cropImageLoaded,    \* the image of the open cropper has loaded
    storage,            \* localStorage item 'limitSolverHistory'
    phase,              \* "boot", "mounted" (first commit done), "ready", or
                        \* "crashed" (a render threw)
    loaded,             \* setHistory queued by the load effect, Null if none
    pendingSolve,       \* Null or Obj(image the solve in flight was issued for)
    pendingCrops,       \* getCroppedImg calls waiting for the toBlob callback
    urlCount,           \* object URLs created so far
    liveUrls,           \* numbers of the object URLs not revoked
    clock,              \* the last value Date.now() returned
    spent,              \* counted steps taken so far
    limits,             \* the run's bound on spent
    lastEvent,          \* history variable: the step just taken
    sessionBase,        \* history variable: what was shown before the file
                        \* pick that opened the crop session, Null once another
                        \* handler has changed it
    clipboard,          \* the copies under way: the rich and the plain writes
                        \* not yet settled and the reset timers not yet fired
    flightLog,          \* history variable: Null, or Obj(the log as it was when
                        \* the outstanding solve was started)
    shownEntry          \* history variable: the entry last selected, Null once
                        \* a later user action has changed the problem

display == <<imageBase64, imageUrl, solution, isLoading, error, isCopied>>
cropper == <<uncroppedImageUrl, isCropperOpen, originalMimeType, completedCrop>>
store == <<history, storage, phase, loaded>>
flight == <<pendingSolve, pendingCrops, urlCount, liveUrls, clock>>
counts == <<spent, limits>>
ghost == <<sessionBase, shownEntry>>
widget == <<crop, cropImageLoaded>>
vars == <<display, cropper, widget, store, flight, counts, lastEvent, ghost,
          flightLog, clipboard>>

\* The texts of the specification being checked.
SolverTexts == IF "texts" \in DOMAIN limits THEN limits.texts ELSE {T1}

\* What ai.models.generateContent can do: answer with a text, answer with
\* no text (response.text is undefined), throw an Error, throw another value.
ApiOutcomes ==
    {[k |-> "text", text |-> t] : t \in SolverTexts}
        \cup {[k |-> "notext"]}
        \cup {[k |-> "throwError", message |-> m] : m \in ApiErrorMessages}
        \cup {[k |-> "throwOther"]}

\* The displayed problem and solve outcome.
Shown ==
    [imageBase64 |-> imageBase64, imageUrl |-> imageUrl,
     solution |-> solution, error |-> error]

InitWith(stored, lim) ==
    /\ imageBase64 = Null
    /\ imageUrl = Null
    /\ solution = Null
    /\ isLoading = FALSE
    /\ error = Null
    /\ isCopied = FALSE
    /\ history = <<>>
    /\ uncroppedImageUrl = Null
    /\ isCropperOpen = FALSE
    /\ originalMimeType = Null
    /\ completedCrop = Undefined
    /\ crop = Undefined
    /\ cropImageLoaded = FALSE
    /\ storage \in stored
    /\ phase = "boot"
    /\ loaded = Null
    /\ pendingSolve = Null
    /\ pendingCrops = <<>>
    /\ urlCount = 0
    /\ liveUrls = {}
    /\ clock = IF JSONparses(storage) /\ ParsesToArray(storage)
               THEN Len(JSONparse(storage)) + 1 ELSE 1
    /\ spent = 0
    /\ limits = lim
    /\ lastEvent = [op |-> "init"]
    /\ sessionBase = Null
    /\ shownEntry = Null
    /\ flightLog = Null
    /\ clipboard = [rich |-> 0, plain |-> 0, timers |-> 0]

Init ==
    InitWith(StoredContents, [steps |-> MaxSteps])

\* Startup on an empty store or a store of one entry, with one more counted
\* step: enough for a file pick, a crop confirm and a solve.
InitUpload ==
    InitWith({[k |-> "missing"], JSONstringify(StoredLog(1))},
             [steps |-> MaxSteps + 1])

\* Startup on a store that may also hold JSON that is not an array.
InitAnyStore ==
    InitWith(StoredContents \cup NonArrayContents, [steps |-> MaxSteps])

(***************************************************************************)
(* Helpers shared by the actions.                                          *)
(***************************************************************************)
\* Mutant of PersistEffect: the effect writes the history of the render
\* before the change.
PersistEffect_StaleHistory(h, writeOk) ==
    storage' = IF writeOk THEN JSONstringify(history) ELSE storage

\* The persist effect: localStorage.setItem either stores the text or
\* throws (quota), and the exception is caught and logged.
PersistEffect(h, writeOk) ==
    storage' = IF writeOk THEN JSONstringify(h) ELSE storage

\* The counter of counted steps: n more of them are taken.
Spend(n) ==
    /\ spent + n <= limits.steps
    /\ spent' = spent + n
    /\ UNCHANGED limits

Cost(counted) == IF counted THEN 1 ELSE 0

\* Whether the write of the persist effect succeeds.
WriteOutcomes == BOOLEAN

\* URL.revokeObjectURL(url) guarded by "if (url)": a no-op on data URLs.
Revoke(live, url) ==
    IF Truthy(url) /\ url.k = "blob" THEN live \ {url.id} ELSE live

\* The entries the user acts on in the history list.
TouchPositions(h) == {1, Len(h)} \cap DOMAIN h

RemoveAt(s, i) == SubSeq(s, 1, i - 1) \o SubSeq(s, i + 1, Len(s))

\* A setHistory(v) queued for the next render; isArray is Array.isArray(v).
Queued(v, isArray) == [k |-> "obj", v |-> v, array |-> isArray]

(***************************************************************************)
(* Startup: the effects of the first commit, then the re-render that the   *)
(* load effect's setHistory causes.                                         *)
(***************************************************************************)
\* First commit.  The load effect reads the store and queues setHistory;
\* the persist effect then runs with the initial history, [].
MountEffects(writeOk) ==
    /\ phase = "boot"
    /\ loaded' = IF storage.k = "missing" THEN Null
                 ELSE IF JSONparses(storage)
                 THEN Queued(JSONparse(storage), ParsesToArray(storage))
                 ELSE Queued(<<>>, TRUE)
    /\ PersistEffect(history, writeOk)
    /\ Spend(Cost(~writeOk))
    /\ phase' = IF storage.k = "missing" THEN "ready" ELSE "mounted"
    /\ lastEvent' = [op |-> "mount", written |-> writeOk]
    /\ UNCHANGED <<display, cropper, history, flight, ghost>>
    /\ UNCHANGED widget
    /\ UNCHANGED flightLog
    /\ UNCHANGED clipboard

\* Second render: history is the loaded value.  HistorySection reads
\* history.length: on a value that is not an array (null) the render throws,
\* nothing catches it and the application is gone.  Otherwise the render
\* commits and the persist effect runs again because history changed.
LoadedRender(writeOk) ==
    /\ phase = "mounted"
    /\ history' = loaded.v
    /\ IF loaded.array
       THEN /\ PersistEffect(history', writeOk)
            /\ Spend(Cost(~writeOk))
            /\ phase' = "ready"
            /\ lastEvent' = [op |-> "load", written |-> writeOk]
       ELSE /\ writeOk
            /\ phase' = "crashed"
            /\ lastEvent' = [op |-> "renderThrew"]
            /\ UNCHANGED <<storage, counts>>
    /\ loaded' = Null
    /\ UNCHANGED <<display, cropper, flight, ghost>>
    /\ UNCHANGED widget
    /\ UNCHANGED flightLog
    /\ UNCHANGED clipboard

(***************************************************************************)
(* Crop session.                                                           *)
(***************************************************************************)
\* Mutant of handleImageChange: setImageBase64(null) is missing.
handleImageChange_KeepsImage(file) ==
    /\ phase = "ready"
    /\ ~isLoading
    /\ Spend(1)
    /\ liveUrls' = Revoke(Revoke(liveUrls, imageUrl), uncroppedImageUrl)
                       \cup {urlCount + 1}
    /\ urlCount' = urlCount + 1
    /\ solution' = Null
    /\ error' = Null
    /\ isCopied' = FALSE
    /\ imageUrl' = Null
    /\ originalMimeType' = Mime(file.type)
    /\ uncroppedImageUrl' = BlobUrl(urlCount + 1, file.name)
    /\ isCropperOpen' = TRUE
    /\ sessionBase' = Obj(Shown)
    /\ shownEntry' = Null
    /\ lastEvent' = [op |-> "pick"]
    /\ UNCHANGED <<imageBase64, isLoading, completedCrop, store, pendingSolve,
                   pendingCrops, clock>>
    /\ cropImageLoaded' = FALSE
    /\ UNCHANGED crop
    /\ UNCHANGED flightLog
    /\ UNCHANGED clipboard

\* handleImageChange with a file chosen.  The file input is disabled while
\* loading.  fileToUrl is already resolved, so the part after its await
\* runs before any other event.
handleImageChange(file) ==
    /\ phase = "ready"
    /\ ~isLoading
    /\ Spend(1)
    /\ liveUrls' = Revoke(Revoke(liveUrls, imageUrl), uncroppedImageUrl)
                       \cup {urlCount + 1}
    /\ urlCount' = urlCount + 1
    /\ solution' = Null
    /\ error' = Null
    /\ isCopied' = FALSE
    /\ imageUrl' = Null
    /\ imageBase64' = Null
    /\ originalMimeType' = Mime(file.type)
    /\ uncroppedImageUrl' = BlobUrl(urlCount + 1, file.name)
    /\ isCropperOpen' = TRUE
    /\ sessionBase' = Obj(Shown)
    /\ shownEntry' = Null
    /\ lastEvent' = [op |-> "pick"]
    /\ UNCHANGED <<isLoading, completedCrop, store, pendingSolve, pendingCrops,
                   clock>>
    /\ cropImageLoaded' = FALSE
    /\ UNCHANGED crop
    /\ UNCHANGED flightLog
    /\ UNCHANGED clipboard

\* The img element's onLoad: onImageLoad centres the default square.  The
\* widget reports a rectangle set from outside through onComplete only when
\* it had none before.
onImageLoad ==
    /\ phase = "ready"
    /\ isCropperOpen
    /\ Truthy(uncroppedImageUrl)
    /\ ~cropImageLoaded
    /\ cropImageLoaded' = TRUE
    /\ crop' = Obj(DefaultRect[uncroppedImageUrl.of])
    /\ completedCrop' = IF crop = Undefined
                        THEN Obj(DefaultRect[uncroppedImageUrl.of])
                        ELSE completedCrop
    /\ lastEvent' = [op |-> "imageLoad"]
    /\ UNCHANGED <<display, uncroppedImageUrl, isCropperOpen, originalMimeType,
                   store, flight, counts, ghost>>
    /\ UNCHANGED flightLog
    /\ UNCHANGED clipboard

\* A drag on the loaded image: ReactCrop's onChange and onComplete report
\* the finished rectangle.
CropComplete(rect) ==
    /\ phase = "ready"
    /\ isCropperOpen
    /\ Truthy(uncroppedImageUrl)
    /\ cropImageLoaded
    /\ crop' = Obj(rect)
    /\ completedCrop' = Obj(rect)
    /\ lastEvent' = [op |-> "cropComplete"]
    /\ UNCHANGED <<display, uncroppedImageUrl, isCropperOpen, originalMimeType,
                   cropImageLoaded, store, flight, counts, ghost>>
    /\ UNCHANGED flightLog
    /\ UNCHANGED clipboard

\* handleCropConfirm up to the await.  It returns at once without a
\* completed rectangle, a rendered image or a MIME type.  Otherwise
\* getCroppedImg's executor runs: with no 2D context it throws, the promise
\* rejects and the catch and finally blocks run; with one, the call waits
\* for canvas.toBlob.
handleCropConfirm(ctxOk) ==
    /\ phase = "ready"
    /\ isCropperOpen
    /\ IF ~(Truthy(completedCrop) /\ Truthy(uncroppedImageUrl) /\ Truthy(originalMimeType))
       THEN /\ ctxOk
            /\ lastEvent' = [op |-> "confirm", outcome |-> "returned"]
            /\ UNCHANGED <<display, cropper, widget, pendingCrops, counts, ghost>>
       ELSE IF ~ctxOk
       THEN /\ error' = CropErrorMessage
            /\ lastEvent' = [op |-> "confirm", outcome |-> "threw"]
            /\ isCropperOpen' = FALSE
            /\ uncroppedImageUrl' = Null
            /\ sessionBase' = Null
            /\ shownEntry' = Null
            /\ cropImageLoaded' = FALSE
            /\ UNCHANGED crop
            /\ UNCHANGED <<imageBase64, imageUrl, solution, isLoading, isCopied,
                           originalMimeType, completedCrop, pendingCrops, counts>>
       ELSE /\ Spend(1)
            /\ lastEvent' = [op |-> "confirm", outcome |-> "waiting"]
            /\ pendingCrops' = Append(pendingCrops,
                   [image |-> uncroppedImageUrl.of, rect |-> completedCrop.v,
                    mimeType |-> originalMimeType.t])
            /\ UNCHANGED <<display, cropper, widget, ghost>>
    /\ UNCHANGED <<store, pendingSolve, urlCount, liveUrls, clock>>
    /\ UNCHANGED flightLog
    /\ UNCHANGED clipboard

\* The canvas of a pending call has no pixels: its sizes are those of the
\* rectangle, and the rectangle has no area.
CanvasEmpty(c) == c.rect \in ZeroAreaRects

\* Mutant of CropBlobCallback: a canvas without pixels gives a blob too.
CropBlobCallback_BlobForEmptyCanvas(i, blobOk) ==
    /\ i \in DOMAIN pendingCrops
    /\ pendingCrops' = RemoveAt(pendingCrops, i)
    /\ IF blobOk
       THEN LET c == pendingCrops[i]
            IN  /\ urlCount' = urlCount + 1
                /\ liveUrls' = liveUrls \cup {urlCount + 1}
                /\ imageBase64' = Obj([base64 |-> CanvasBase64(c.image, c.rect, c.mimeType),
                                       mimeType |-> c.mimeType])
                /\ imageUrl' = BlobUrl(urlCount + 1,
                                       CanvasBlob(c.image, c.rect, c.mimeType))
                /\ isCropperOpen' = FALSE
                /\ uncroppedImageUrl' = Null
                /\ sessionBase' = Null
                /\ shownEntry' = Null
                /\ cropImageLoaded' = FALSE
                /\ UNCHANGED crop
                /\ UNCHANGED <<solution, isLoading, error, isCopied, originalMimeType,
                               completedCrop>>
       ELSE UNCHANGED <<display, cropper, widget, urlCount, liveUrls, ghost>>
    /\ lastEvent' = [op |-> "cropSettled", blobOk |-> blobOk]
    /\ UNCHANGED <<store, pendingSolve, clock, counts>>
    /\ UNCHANGED flightLog
    /\ UNCHANGED clipboard

\* The toBlob callback of pending call i and, with a blob, the rest of
\* handleCropConfirm.  A canvas without pixels gives no blob, and with no
\* blob the promise never settles.
CropBlobCallback(i, blobOk) ==
    /\ i \in DOMAIN pendingCrops
    /\ pendingCrops' = RemoveAt(pendingCrops, i)
    /\ blobOk => ~CanvasEmpty(pendingCrops[i])
    /\ IF blobOk
       THEN LET c == pendingCrops[i]
            IN  /\ urlCount' = urlCount + 1
                /\ liveUrls' = liveUrls \cup {urlCount + 1}
                /\ imageBase64' = Obj([base64 |-> CanvasBase64(c.image, c.rect, c.mimeType),
                                       mimeType |-> c.mimeType])
                /\ imageUrl' = BlobUrl(urlCount + 1,
                                       CanvasBlob(c.image, c.rect, c.mimeType))
                /\ isCropperOpen' = FALSE
                /\ uncroppedImageUrl' = Null
                /\ sessionBase' = Null
                /\ shownEntry' = Null
                /\ cropImageLoaded' = FALSE
                /\ UNCHANGED crop
                /\ UNCHANGED <<solution, isLoading, error, isCopied, originalMimeType,
                               completedCrop>>
       ELSE UNCHANGED <<display, cropper, widget, urlCount, liveUrls, ghost>>
    /\ lastEvent' = [op |-> "cropSettled", blobOk |-> blobOk]
    /\ UNCHANGED <<store, pendingSolve, clock, counts>>
    /\ UNCHANGED flightLog
    /\ UNCHANGED clipboard

handleCropCancel ==
    /\ phase = "ready"
    /\ isCropperOpen
    /\ isCropperOpen' = FALSE
    /\ uncroppedImageUrl' = Null
    /\ lastEvent' = [op |-> "cancel"]
    /\ cropImageLoaded' = FALSE
    /\ UNCHANGED <<display, originalMimeType, completedCrop, crop, store, flight,
                   counts, ghost>>
    /\ UNCHANGED flightLog
    /\ UNCHANGED clipboard

(***************************************************************************)
(* Solve session.                                                          *)
(***************************************************************************)
\* The disabled attributes of the file input and of the solve button.
FilePickerEnabled == ~isLoading
SolveButtonEnabled == Truthy(imageBase64) /\ ~isLoading

\* Mutant of handleSolve: the solve button is not disabled while loading.
handleSolve_NoLoadingGuard ==
    /\ phase = "ready"
    /\ Truthy(imageBase64)
    /\ Spend(1)
    /\ isLoading' = TRUE
    /\ error' = Null
    /\ solution' = Null
    /\ isCopied' = FALSE
    /\ pendingSolve' = imageBase64
    /\ sessionBase' = Null
    /\ shownEntry' = Null
    /\ lastEvent' = [op |-> "solve"]
    /\ UNCHANGED <<imageBase64, imageUrl, cropper, store, pendingCrops, urlCount,
                   liveUrls, clock>>
    /\ UNCHANGED widget
    /\ flightLog' = Obj(history)
    /\ UNCHANGED clipboard

\* handleSolve up to the await.  The button is disabled without an image
\* and while loading.
handleSolve ==
    /\ phase = "ready"
    /\ Truthy(imageBase64)
    /\ ~isLoading
    /\ Spend(1)
    /\ isLoading' = TRUE
    /\ error' = Null
    /\ solution' = Null
    /\ isCopied' = FALSE
    /\ pendingSolve' = imageBase64
    /\ sessionBase' = Null
    /\ shownEntry' = Null
    /\ lastEvent' = [op |-> "solve"]
    /\ UNCHANGED <<imageBase64, imageUrl, cropper, store, pendingCrops, urlCount,
                   liveUrls, clock>>
    /\ UNCHANGED widget
    /\ flightLog' = Obj(history)
    /\ UNCHANGED clipboard

\* Mutant of SolveSettled: the entry takes the image active at the
\* settlement, not the image the call was issued for.
SolveSettled_UsesCurrentImage(o, now, writeOk) ==
    /\ pendingSolve # Null
    /\ LET result == solveLimitFromImage(o)
       IN  /\ solution' = result
           /\ IF result.k = "str"
              THEN /\ clock' = now
                   /\ history' = InsertEntry(
                          HistoryEntry(now, imageBase64.v, result.s), history)
                   /\ PersistEffect(history', writeOk)
                   /\ Spend(Cost(~writeOk))
                   /\ UNCHANGED error
              ELSE /\ now = clock
                   /\ writeOk
                   /\ error' = SolveErrorMessage
                   /\ UNCHANGED <<clock, history, storage, counts>>
    /\ isLoading' = FALSE
    /\ pendingSolve' = Null
    /\ sessionBase' = Null
    /\ lastEvent' = [op |-> "settled", outcome |-> o, image |-> pendingSolve.v,
                     written |-> writeOk, edited |-> (flightLog.v # history)]
    /\ UNCHANGED <<imageBase64, imageUrl, isCopied, cropper, phase, loaded,
                   pendingCrops, urlCount, liveUrls, shownEntry>>
    /\ UNCHANGED widget
    /\ flightLog' = Null
    /\ UNCHANGED clipboard

\* Mutant of SolveSettled: setIsLoading(false) ends the try block, not a
\* finally block.
SolveSettled_LoadingKeptOnError(o, now, writeOk) ==
    /\ pendingSolve # Null
    /\ LET result == solveLimitFromImage(o)
       IN  /\ solution' = result
           /\ IF result.k = "str"
              THEN /\ clock' = now
                   /\ history' = InsertEntry(
                          HistoryEntry(now, pendingSolve.v, result.s), history)
                   /\ PersistEffect(history', writeOk)
                   /\ Spend(Cost(~writeOk))
                   /\ UNCHANGED error
              ELSE /\ now = clock
                   /\ writeOk
                   /\ error' = SolveErrorMessage
                   /\ UNCHANGED <<clock, history, storage, counts>>
    /\ isLoading' = (solveLimitFromImage(o).k # "str")
    /\ pendingSolve' = Null
    /\ sessionBase' = Null
    /\ lastEvent' = [op |-> "settled", outcome |-> o, image |-> pendingSolve.v,
                     written |-> writeOk, edited |-> (flightLog.v # history)]
    /\ UNCHANGED <<imageBase64, imageUrl, isCopied, cropper, phase, loaded,
                   pendingCrops, urlCount, liveUrls, shownEntry>>
    /\ UNCHANGED widget
    /\ flightLog' = Null
    /\ UNCHANGED clipboard

\* Mutant of SolveSettled: setHistory is given a value built from the log
\* handleSolve saw when it started, not an updater.
SolveSettled_StaleLog(o, now, writeOk) ==
    /\ pendingSolve # Null
    /\ LET result == solveLimitFromImage(o)
       IN  /\ solution' = result
           /\ IF result.k = "str"
              THEN /\ clock' = now
                   /\ history' = InsertEntry(
                          HistoryEntry(now, pendingSolve.v, result.s), flightLog.v)
                   /\ PersistEffect(history', writeOk)
                   /\ Spend(Cost(~writeOk))
                   /\ UNCHANGED error
              ELSE /\ now = clock
                   /\ writeOk
                   /\ error' = SolveErrorMessage
                   /\ UNCHANGED <<clock, history, storage, counts>>
    /\ isLoading' = FALSE
    /\ pendingSolve' = Null
    /\ sessionBase' = Null
    /\ lastEvent' = [op |-> "settled", outcome |-> o, image |-> pendingSolve.v,
                     written |-> writeOk, edited |-> (flightLog.v # history)]
    /\ UNCHANGED <<imageBase64, imageUrl, isCopied, cropper, phase, loaded,
                   pendingCrops, urlCount, liveUrls, shownEntry>>
    /\ UNCHANGED widget
    /\ flightLog' = Null
    /\ UNCHANGED clipboard

\* The rest of handleSolve, once solveLimitFromImage's promise resolves.
\* o is what the remote call did; now is what Date.now() returns.
\* With a string result the entry is inserted and persisted.  With
\* undefined, extractSnippet throws on result.split after setSolution, and
\* the catch block sets the error.
SolveSettled(o, now, writeOk) ==
    /\ pendingSolve # Null
    /\ LET result == solveLimitFromImage(o)
       IN  /\ solution' = result
           /\ IF result.k = "str"
              THEN /\ clock' = now
                   /\ history' = InsertEntry(
                          HistoryEntry(now, pendingSolve.v, result.s), history)
                   /\ PersistEffect(history', writeOk)
                   /\ Spend(Cost(~writeOk))
                   /\ UNCHANGED error
              ELSE /\ now = clock
                   /\ writeOk
                   /\ error' = SolveErrorMessage
                   /\ UNCHANGED <<clock, history, storage, counts>>
    /\ isLoading' = FALSE
    /\ pendingSolve' = Null
    /\ sessionBase' = Null
    /\ lastEvent' = [op |-> "settled", outcome |-> o, image |-> pendingSolve.v,
                     written |-> writeOk, edited |-> (flightLog.v # history)]
    /\ UNCHANGED <<imageBase64, imageUrl, isCopied, cropper, phase, loaded,
                   pendingCrops, urlCount, liveUrls, shownEntry>>
    /\ UNCHANGED widget
    /\ flightLog' = Null
    /\ UNCHANGED clipboard

(***************************************************************************)
(* Copy to the clipboard.                                                  *)
(***************************************************************************)
\* What the page offers handleCopyToClipboard: the asynchronous clipboard
\* with ClipboardItem, the clipboard with writeText only, or no
\* navigator.clipboard at all.
ClipboardSupport == {"full", "textOnly", "none"}

\* The rendered solution carries the copy button, disabled while copied.
CopyButtonEnabled ==
    /\ ~isLoading
    /\ ~Truthy(error)
    /\ Truthy(solution)
    /\ ~isCopied

\* All that the click itself leaves alone.
appState == <<display, cropper, widget, store, flight, ghost, flightLog>>

\* handleCopyToClipboard up to the promise of navigator.clipboard.write.
\* Without ClipboardItem, or without navigator.clipboard, the expression
\* throws before any promise exists and the handler ends there.
handleCopyToClipboard(support) ==
    /\ phase = "ready"
    /\ CopyButtonEnabled
    /\ Spend(1)
    /\ IF support = "full"
       THEN /\ clipboard' = [clipboard EXCEPT !.rich = @ + 1]
            /\ lastEvent' = [op |-> "copy", outcome |-> "waiting"]
       ELSE /\ lastEvent' = [op |-> "copy", outcome |-> "threw"]
            /\ UNCHANGED clipboard
    /\ UNCHANGED appState

\* The promise of clipboard.write settles: then() marks the copy and arms
\* the reset timer, catch() calls clipboard.writeText.
CopyRichSettled(ok) ==
    /\ clipboard.rich > 0
    /\ IF ok
       THEN /\ isCopied' = TRUE
            /\ clipboard' = [clipboard EXCEPT !.rich = @ - 1, !.timers = @ + 1]
       ELSE /\ clipboard' = [clipboard EXCEPT !.rich = @ - 1, !.plain = @ + 1]
            /\ UNCHANGED isCopied
    /\ lastEvent' = [op |-> "richSettled", ok |-> ok]
    /\ UNCHANGED <<imageBase64, imageUrl, solution, isLoading, error, cropper,
                   widget, store, flight, counts, ghost, flightLog>>

\* The promise of clipboard.writeText settles: then() marks the copy and
\* arms the reset timer, catch() alerts.
CopyPlainSettled(ok) ==
    /\ clipboard.plain > 0
    /\ IF ok
       THEN /\ isCopied' = TRUE
            /\ clipboard' = [clipboard EXCEPT !.plain = @ - 1, !.timers = @ + 1]
       ELSE /\ clipboard' = [clipboard EXCEPT !.plain = @ - 1]
            /\ UNCHANGED isCopied
    /\ lastEvent' = [op |-> "plainSettled", ok |-> ok, alerted |-> ~ok]
    /\ UNCHANGED <<imageBase64, imageUrl, solution, isLoading, error, cropper,
                   widget, store, flight, counts, ghost, flightLog>>

\* A reset timer fires after 2500 ms.
CopyTimerFires ==
    /\ clipboard.timers > 0
    /\ isCopied' = FALSE
    /\ clipboard' = [clipboard EXCEPT !.timers = @ - 1]
    /\ lastEvent' = [op |-> "copyTimer"]
    /\ UNCHANGED <<imageBase64, imageUrl, solution, isLoading, error, cropper,
                   widget, store, flight, counts, ghost, flightLog>>

(***************************************************************************)
(* History.                                                                *)
(***************************************************************************)
\* Mutant of handleSelectHistoryItem: setError(null) is missing.
handleSelectHistoryItem_KeepsError(item) ==
    /\ phase = "ready"
    /\ imageBase64' = Obj(item.imageData)
    /\ imageUrl' = DataUrl(item.imageData)
    /\ solution' = Str(item.fullSolution)
    /\ isCopied' = FALSE
    /\ sessionBase' = Null
    /\ shownEntry' = Obj(item)
    /\ lastEvent' = [op |-> "select", item |-> item, over |-> imageBase64]
    /\ UNCHANGED <<isLoading, error, cropper, store, flight, counts>>
    /\ UNCHANGED widget
    /\ UNCHANGED flightLog
    /\ UNCHANGED clipboard

handleSelectHistoryItem(item) ==
    /\ phase = "ready"
    /\ imageBase64' = Obj(item.imageData)
    /\ imageUrl' = DataUrl(item.imageData)
    /\ solution' = Str(item.fullSolution)
    /\ error' = Null
    /\ isCopied' = FALSE
    /\ sessionBase' = Null
    /\ shownEntry' = Obj(item)
    /\ lastEvent' = [op |-> "select", item |-> item, over |-> imageBase64]
    /\ UNCHANGED <<isLoading, cropper, store, flight, counts>>
    /\ UNCHANGED widget
    /\ UNCHANGED flightLog
    /\ UNCHANGED clipboard

\* Mutant of handleClearHistory: the log is emptied only once the store
\* has been written.
handleClearHistory_NeedsWrite(writeOk) ==
    /\ phase = "ready"
    /\ history # <<>>
    /\ history' = IF writeOk THEN <<>> ELSE history
    /\ PersistEffect(history', writeOk)
    /\ Spend(Cost(~writeOk))
    /\ lastEvent' = [op |-> "clear", written |-> writeOk]
    /\ UNCHANGED <<display, cropper, phase, loaded, flight, ghost>>
    /\ UNCHANGED widget
    /\ UNCHANGED flightLog
    /\ UNCHANGED clipboard

\* The clear button is rendered only for a non-empty history.
handleClearHistory(writeOk) ==
    /\ phase = "ready"
    /\ history # <<>>
    /\ history' = <<>>
    /\ PersistEffect(history', writeOk)
    /\ Spend(Cost(~writeOk))
    /\ lastEvent' = [op |-> "clear", written |-> writeOk]
    /\ UNCHANGED <<display, cropper, phase, loaded, flight, ghost>>
    /\ UNCHANGED widget
    /\ UNCHANGED flightLog
    /\ UNCHANGED clipboard

\* Mutant of handleDeleteHistoryEntry: deleting the entry whose solution is
\* displayed also clears the displayed solution.
handleDeleteHistoryEntry_ClearsShown(id, writeOk) ==
    /\ phase = "ready"
    /\ history' = DeleteEntry(id, history)
    /\ PersistEffect(history', writeOk)
    /\ Spend(1 + Cost(~writeOk))
    /\ solution' = IF \E i \in DOMAIN history :
                         history[i].id = id /\ solution = Str(history[i].fullSolution)
                   THEN Null ELSE solution
    /\ lastEvent' = [op |-> "delete", id |-> id, written |-> writeOk]
    /\ UNCHANGED <<imageBase64, imageUrl, isLoading, error, isCopied, cropper,
                   phase, loaded, flight, ghost>>
    /\ UNCHANGED widget
    /\ UNCHANGED flightLog
    /\ UNCHANGED clipboard

handleDeleteHistoryEntry(id, writeOk) ==
    /\ phase = "ready"
    /\ history' = DeleteEntry(id, history)
    /\ PersistEffect(history', writeOk)
    /\ Spend(1 + Cost(~writeOk))
    /\ lastEvent' = [op |-> "delete", id |-> id, written |-> writeOk]
    /\ UNCHANGED <<display, cropper, phase, loaded, flight, ghost>>
    /\ UNCHANGED widget
    /\ UNCHANGED flightLog
    /\ UNCHANGED clipboard

(***************************************************************************)
(* Specification.                                                          *)
(***************************************************************************)
\* The entries HistorySection renders: none once the application is gone.
HistoryList == IF phase = "crashed" THEN <<>> ELSE history

Next ==
    \/ \E w \in WriteOutcomes : MountEffects(w)
    \/ \E w \in WriteOutcomes : LoadedRender(w)
    \/ \E file \in Files : handleImageChange(file)
    \/ onImageLoad
    \/ \E rect \in CropRects : CropComplete(rect)
    \/ \E ctxOk \in BOOLEAN : handleCropConfirm(ctxOk)
    \/ \E i \in DOMAIN pendingCrops, blobOk \in BOOLEAN : CropBlobCallback(i, blobOk)
    \/ handleCropCancel
    \/ handleSolve
    \/ \E o \in ApiOutcomes, now \in {clock, clock + 1}, w \in WriteOutcomes :
           SolveSettled(o, now, w)
    \/ \E support \in ClipboardSupport : handleCopyToClipboard(support)
    \/ \E ok \in BOOLEAN : CopyRichSettled(ok)
    \/ \E ok \in BOOLEAN : CopyPlainSettled(ok)
    \/ CopyTimerFires
    \/ \E p \in TouchPositions(HistoryList) : handleSelectHistoryItem(HistoryList[p])
    \/ \E w \in WriteOutcomes : handleClearHistory(w)
    \/ \E p \in TouchPositions(HistoryList), w \in WriteOutcomes :
           handleDeleteHistoryEntry(HistoryList[p].id, w)

Spec == Init /\ [][Next]_vars

\* The solver call settles: the promise handleSolve awaits resolves.
SolverSettles ==
    WF_vars(\E o \in ApiOutcomes, now \in {clock, clock + 1}, w \in WriteOutcomes :
                SolveSettled(o, now, w))

\* A first visit, or one that finds one stored entry.
InitFair ==
    InitWith({[k |-> "missing"], JSONstringify(StoredLog(1))}, [steps |-> MaxSteps])

\* A first visit, or one that finds one stored entry, with a solver that
\* answers with any of the snippet texts.
InitSnippet ==
    InitWith({[k |-> "missing"], JSONstringify(StoredLog(1))},
             [steps |-> MaxSteps, texts |-> SnippetTexts])

SpecSnippet == InitSnippet /\ [][Next]_vars

SpecFair == InitFair /\ [][Next]_vars /\ SolverSettles

SpecAnyStore == InitAnyStore /\ [][Next]_vars

SpecUpload == InitUpload /\ [][Next]_vars

(***************************************************************************)
(* Properties.                                                             *)
(***************************************************************************)
\* The step just taken was the settlement of a solve whose remote call
\* threw.
FailedCallSettled == lastEvent.op = "settled" /\ ApiFailed(lastEvent.outcome)

\* C1: right after a solve whose remote call failed has settled, the fixed
\* error message is set, no solution text is displayed and loading is off.
C1_FailedCallShowsError ==
    FailedCallSettled =>
        /\ error = SolveErrorMessage
        /\ ~Truthy(solution)
        /\ ~isLoading

\* C2: the settlement of a solve whose remote call failed leaves the
\* history log and the active problem image as they were.
C2_FailedCallKeepsHistory ==
    [][FailedCallSettled' => (history' = history /\ imageBase64' = imageBase64)]_vars

\* The step just taken inserted a history entry.
Inserted == lastEvent.op = "settled" /\ solveLimitFromImage(lastEvent.outcome).k = "str"

\* C3: an insert into a log of at most 20 entries puts the new entry at
\* position 0, shifts the earlier entries down by one in their order, and
\* keeps the first 20: the 21st, the oldest, is dropped.
C3_InsertKeepsMostRecent ==
    [][(Inserted' /\ Len(history) <= HistoryCap) =>
          /\ Len(history') = Min(Len(history) + 1, HistoryCap)
          /\ history'[1] = HistoryEntry(clock', lastEvent'.image,
                                        solveLimitFromImage(lastEvent'.outcome).s)
          /\ \A i \in 2..Len(history') : history'[i] = history[i - 1]]_vars

\* Witness of C3: an insert into the stored log of 20 entries has dropped
\* its oldest entry.
C3_EvictionReached ==
    /\ Inserted
    /\ Len(history) = HistoryCap
    /\ history[2] = StoredEntry(1, HistoryCap)
    /\ history[HistoryCap] = StoredEntry(HistoryCap - 1, HistoryCap)
    /\ \A i \in DOMAIN history : history[i] # StoredEntry(HistoryCap, HistoryCap)

\* C4: the in-memory history log never holds more than 20 entries.
C4_LengthAtMostCap == Len(history) <= HistoryCap

\* C5: selecting an entry makes the active image that entry's image
\* (payload and MIME type), the displayed solution its fullSolution, clears
\* the error and leaves the history log unchanged.
C5_SelectShowsEntry ==
    [][lastEvent'.op = "select" =>
          /\ imageBase64' = Obj(lastEvent'.item.imageData)
          /\ solution' = Str(lastEvent'.item.fullSolution)
          /\ error' = Null
          /\ history' = history]_vars

\* Witness of C5: an entry was selected while another problem was active.
C5_SelectedOverOtherProblem ==
    /\ lastEvent.op = "select"
    /\ Truthy(lastEvent.over)
    /\ lastEvent.over # imageBase64
    /\ imageBase64 = Obj(lastEvent.item.imageData)

\* The display shows entry e: its image, its solution, no error.
ShowsEntry(e) ==
    /\ imageBase64 = Obj(e.imageData)
    /\ imageUrl = DataUrl(e.imageData)
    /\ solution = Str(e.fullSolution)
    /\ error = Null

\* C6: from the selection of an entry until the next user action that
\* changes the problem, the display shows that entry, also when a solve
\* issued before the selection settles after it.
C6_SelectionStaysShown == shownEntry # Null => ShowsEntry(shownEntry.v)

\* C7: a solution and an error are never present together, and neither is
\* present while loading.
C7_OneOutcome ==
    /\ ~(Truthy(solution) /\ Truthy(error))
    /\ isLoading => (~Truthy(solution) /\ ~Truthy(error))

\* C8: right after the cancel of a crop session in which nothing but the
\* crop widget was used, the active problem and the solve outcome are what
\* they were before the file pick that opened the session.
C8_CancelRestores ==
    (lastEvent.op = "cancel" /\ sessionBase # Null) => Shown = sessionBase.v

\* C9: deleting an entry or clearing the history changes neither the active
\* image, its display URL, the solution, the error nor the loading flag.
C9_HistoryEditsKeepDisplay ==
    [][lastEvent'.op \in {"delete", "clear"} =>
          UNCHANGED <<imageBase64, imageUrl, solution, error, isLoading>>]_vars

\* Witness of C9: the entry the displayed problem was selected from has
\* been deleted, and the problem is still displayed.
C9_DeletedTheShownEntry ==
    /\ lastEvent.op = "delete"
    /\ shownEntry # Null
    /\ shownEntry.v.id = lastEvent.id
    /\ ShowsEntry(shownEntry.v)
    /\ \A i \in DOMAIN history : history[i].id # lastEvent.id

\* The URL can be rendered and shows the pixels of the encoded image.
RefersTo(url, image) ==
    IF url.k = "data"
    THEN url.base64 = image.base64 /\ url.mimeType = image.mimeType
    ELSE url.id \in liveUrls /\ url.of.pixels = image.base64.pixels

C11_RawUrlReleasedOnExit ==
    [][(isCropperOpen /\ ~isCropperOpen' /\ Truthy(uncroppedImageUrl)) =>
          uncroppedImageUrl.id \notin liveUrls']_vars

\* C12: every step that replaces or clears the display URL of a confirmed
\* crop releases that object URL.
C12_CropUrlReleasedOnReplace ==
    [][(imageUrl.k = "blob" /\ imageUrl' # imageUrl) =>
          imageUrl.id \notin liveUrls']_vars

\* The store holds no usable history: the key is missing, the text is not
\* JSON, or it is JSON that is not an array.
Malformed(item) == item.k = "missing" \/ ~JSONparses(item) \/ ~ParsesToArray(item)

\* C13: on a store without a usable history the load effect gives the
\* in-memory log the empty sequence or leaves the initial empty log, and
\* no render fails afterwards.
C13_MalformedTreatedAsAbsent ==
    [][/\ (phase = "boot" /\ phase' # "boot" /\ Malformed(storage)) =>
             (loaded' = Null \/ (loaded'.array /\ loaded'.v = <<>>))
       /\ phase' # "crashed"]_vars

\* C14: a log of at most 20 entries is read back from its stored text as
\* the same entries in the same order: for every log a step produces, for
\* the stored log the load effect reads at startup, and for the log the
\* render after it displays.
C14_RoundTrip ==
    [][/\ (history' # history /\ Len(history') <= HistoryCap) =>
             JSONparse(JSONstringify(history')) = history'
       /\ \A n \in StoredSizes :
             (/\ n <= HistoryCap
              /\ phase = "boot" /\ phase' # "boot"
              /\ storage = JSONstringify(StoredLog(n))) =>
                 loaded' = Queued(StoredLog(n), TRUE)
       /\ (phase = "mounted" /\ phase' = "ready") => history' = loaded.v]_vars

\* Witness of C14: the stored log of 20 entries, some with a line feed in
\* the solution text, has been loaded.
C14_FullLogLoaded ==
    /\ lastEvent.op = "load"
    /\ history = StoredLog(HistoryCap)
    /\ \E i \in DOMAIN history : Includes(history[i].fullSolution, NL)

\* The step just taken changed the history log: an insert, a delete or a
\* clear.
Mutated == Inserted \/ lastEvent.op \in {"delete", "clear"}

\* C15: every step that mutates the history (insert, delete, clear) and
\* whose write succeeds leaves the stored text equal to the text of the
\* in-memory log, before any other step is taken.
C15_PersistedAfterMutation ==
    [][(Mutated' /\ lastEvent'.written) => storage' = JSONstringify(history')]_vars

\* Witness of C15: a delete has been persisted, and entries remain.
C15_DeletePersisted ==
    /\ lastEvent.op = "delete"
    /\ lastEvent.written
    /\ history # <<>>
    /\ storage = JSONstringify(history)

\* C16: a mutation whose write fails leaves the store as it was and changes
\* the in-memory log, the active problem and the solve outcome exactly as
\* the mutation does when the write succeeds.
C16_WriteFailureSwallowed ==
    [][(Mutated' /\ ~lastEvent'.written) =>
          /\ storage' = storage
          /\ imageBase64' = imageBase64 /\ imageUrl' = imageUrl
          /\ lastEvent'.op = "clear" =>
                 history' = <<>> /\ UNCHANGED <<solution, error, isLoading>>
          /\ lastEvent'.op = "delete" =>
                 /\ \A i \in DOMAIN history' : history'[i].id # lastEvent'.id
                 /\ Len(history') < Len(history)
                 /\ UNCHANGED <<solution, error, isLoading>>
          /\ lastEvent'.op = "settled" =>
                 /\ Len(history') = Min(Len(history) + 1, HistoryCap)
                 /\ Str(history'[1].fullSolution) = solution'
                 /\ error' = error
                 /\ ~isLoading']_vars

\* Witness of C16: the write after an insert failed; the new entry is in
\* the in-memory log, its solution is displayed and the store still holds
\* the text of the log before the insert.
C16_InsertNotStored ==
    /\ Inserted
    /\ ~lastEvent.written
    /\ Str(history[1].fullSolution) = solution
    /\ storage = JSONstringify(Tail(history))

\* after is before without the entries of that id: the kept entries, as
\* many as before holds, each at its position less the number of removed
\* entries ahead of it.
IsWithout(after, before, id) ==
    LET kept == {i \in DOMAIN before : before[i].id # id}
        Ahead(i) == Cardinality({j \in 1..i : before[j].id = id})
    IN  /\ Len(after) = Cardinality(kept)
        /\ \A i \in kept : after[i - Ahead(i)] = before[i]

\* An id no entry has (ids are times, all positive), and the ids of the
\* entries the list lets the user delete.
ProbeIds(h) == {0} \cup {h[p].id : p \in TouchPositions(h)}

\* C17: a delete step leaves exactly the entries of another id, in their
\* order; for every log a step produces, deleting an id no entry has
\* gives the same log, and deleting any id twice gives what deleting it
\* once gives.
C17_DeleteFilters ==
    [][/\ lastEvent'.op = "delete" => IsWithout(history', history, lastEvent'.id)
       /\ history' # history =>
             \A id \in ProbeIds(history') :
                 /\ IsWithout(DeleteEntry(id, history'), history', id)
                 /\ (\A i \in DOMAIN history' : history'[i].id # id) =>
                        DeleteEntry(id, history') = history'
                 /\ DeleteEntry(id, DeleteEntry(id, history')) =
                        DeleteEntry(id, history')]_vars

\* Witness of C17: the oldest of several entries has been deleted, and
\* deleting the same id again finds no entry.
C17_OldestDeleted ==
    /\ lastEvent.op = "delete"
    /\ Len(history) = HistoryCap - 1
    /\ history[1] = StoredEntry(1, HistoryCap)
    /\ \A i \in DOMAIN history : history[i].id # lastEvent.id
    /\ DeleteEntry(lastEvent.id, history) = history

\* The step just taken was the settlement of a solve the remote model
\* answered with a text.
SolvedWithText == lastEvent.op = "settled" /\ lastEvent.outcome.k = "text"

\* C18: the settlement of a solve answered with text T puts one new entry
\* at position 0, with fullSolution T and the image the call was issued
\* for, ahead of the earlier entries; on an empty log the log then has
\* exactly 1 entry.
C18_SolveAddsEntry ==
    [][SolvedWithText' =>
          /\ history'[1].fullSolution = lastEvent'.outcome.text
          /\ history'[1].imageData = pendingSolve.v
          /\ Len(history') = Min(Len(history) + 1, HistoryCap)
          /\ \A i \in 2..Len(history') : history'[i] = history[i - 1]
          /\ history = <<>> => Len(history') = 1]_vars

\* Witness of C18: a file was picked, cropped and solved, a history entry
\* was selected while the call was in flight, and the new entry holds the
\* crop while the display holds the selected entry's image.
C18_SolvedWhileOtherShown ==
    /\ SolvedWithText
    /\ history[1].imageData.base64.pixels[1] \in {f.name : f \in Files}
    /\ history[1].fullSolution = lastEvent.outcome.text
    /\ Truthy(imageBase64)
    /\ imageBase64.v # history[1].imageData

\* The step just taken was the failure of the encoder in a crop confirm:
\* no 2D context, or no blob from canvas.toBlob.  It is the last step of
\* that confirm.
EncoderFailed ==
    \/ lastEvent.op = "confirm" /\ lastEvent.outcome = "threw"
    \/ lastEvent.op = "cropSettled" /\ ~lastEvent.blobOk

\* C19: once the encoder has failed in a crop confirm, the crop error is
\* displayed, the cropper is closed and the pending raw image is dropped.
C19_EncoderFailureSurfaced ==
    EncoderFailed =>
        /\ error = CropErrorMessage
        /\ ~isCropperOpen
        /\ ~Truthy(uncroppedImageUrl)

\* C20: a solve step starts a call only when none is outstanding; while
\* one is outstanding the page is loading and no other step starts,
\* replaces or drops a call; its settlement leaves none outstanding.
C20_OneCallOutstanding ==
    [][/\ lastEvent'.op = "solve" => (pendingSolve = Null /\ pendingSolve' # Null)
       /\ lastEvent'.op = "settled" => (pendingSolve # Null /\ pendingSolve' = Null)
       /\ lastEvent'.op \notin {"solve", "settled"} => pendingSolve' = pendingSolve
       /\ pendingSolve' # Null => isLoading']_vars

\* Witness of C20: a history entry was selected while a call was
\* outstanding, and the call is still the only one.
C20_SelectedDuringCall ==
    /\ lastEvent.op = "select"
    /\ pendingSolve # Null
    /\ isLoading
    /\ Truthy(solution)

\* C21: no two entries of the history log have the same id.
C21_UniqueIds ==
    \A i, j \in DOMAIN history : i # j => history[i].id # history[j].id

\* The stored text is a history array with at least one entry.
HoldsEntries(item) ==
    JSONparses(item) /\ ParsesToArray(item) /\ item.value.items # <<>>

\* C28: no step other than an insert, a delete or a clear changes a store
\* that holds entries; startup in particular writes nothing else over it.
C28_StartupKeepsStore ==
    [][(~Mutated' /\ HoldsEntries(storage)) => storage' = storage]_vars

\* C22: every crop confirm that succeeds leaves an active encoded image
\* whose payload is not empty and whose MIME type is the type of the file
\* picked for that crop session.
C22_CropEncoded ==
    [][(lastEvent'.op = "cropSettled" /\ lastEvent'.blobOk) =>
          /\ Truthy(imageBase64')
          /\ imageBase64'.v.base64 # EmptyPayload
          /\ \E f \in Files : /\ f.name = imageBase64'.v.base64.pixels[1]
                               /\ f.type = imageBase64'.v.mimeType]_vars

\* Witness of C22: a crop of the jpeg file succeeded on a rectangle the
\* user dragged.
C22_JpegCropped ==
    /\ lastEvent.op = "cropSettled"
    /\ lastEvent.blobOk
    /\ imageBase64.v.mimeType = "image/jpeg"
    /\ imageBase64.v.base64.pixels = <<"B", "R1">>

\* C23: a file pick opens the crop session with the completed rectangle
\* unset, so that no rectangle of an earlier session can reach the encoder.
C23_SessionStartsUnset ==
    [][lastEvent'.op = "pick" => completedCrop' = Undefined]_vars

\* C24: a confirm that directly follows the load of the pending image does
\* not return early, and the rectangle it hands to the encoder is the
\* default square centred on that image.
C24_DefaultCommitted ==
    [][(lastEvent.op = "imageLoad" /\ lastEvent'.op = "confirm") =>
          /\ lastEvent'.outcome # "returned"
          /\ lastEvent'.outcome = "waiting" =>
                 pendingCrops'[Len(pendingCrops')].rect
                     = DefaultRect[uncroppedImageUrl.of]]_vars

\* C25: with a solver call that settles, every solve that was started
\* leaves the loading state, whether it succeeded or failed; with no call
\* outstanding the file picker is enabled, and so is the solve button
\* whenever an active image is present.
C25_SolveLeavesLoading ==
    /\ [](pendingSolve = Null =>
            (FilePickerEnabled /\ (Truthy(imageBase64) => SolveButtonEnabled)))
    /\ (pendingSolve # Null) ~> (pendingSolve = Null /\ ~isLoading)

\* Witness of C25: a solve failed, and with the image still active the
\* solve button and the file picker are enabled again.
C25_EnabledAfterFailure ==
    /\ lastEvent.op = "settled"
    /\ error = SolveErrorMessage
    /\ Truthy(imageBase64)
    /\ SolveButtonEnabled
    /\ FilePickerEnabled

\* The entries of a log.
Entries(h) == {h[i] : i \in DOMAIN h}

\* C26: the insert done at solve success prepends to the log as it is at
\* that moment: the new entry is kept at position 0, and no entry deleted
\* or cleared while the solve was in flight is in the log behind it.
C26_InsertOnCurrentLog ==
    [][Inserted' =>
          /\ history' # <<>>
          /\ Head(history').id = clock'
          /\ Tail(history') = Slice0(history, HistoryCap - 1)
          /\ \A e \in Entries(flightLog.v) \ Entries(history) :
                 e \notin Entries(Tail(history'))]_vars

\* Witness of C26: an entry was deleted, or the log cleared, while a solve
\* was in flight, and the solve has since inserted its entry.
C26_InsertedAfterEdit ==
    /\ Inserted
    /\ lastEvent.edited
    /\ history # <<>>

\* The snippet of a text, stated without the code's string operations:
\* lines are the stretches between newlines; the chosen line is the first
\* one with a "$" and fewer than 100 characters, else the first line if it
\* is not empty, else the placeholder; the snippet runs from the first to
\* the last non-blank character of the chosen line with its markup
\* characters left out.
SnippetOf(text) ==
    LET starts == {1} \cup {i + 1 : i \in {j \in DOMAIN text : text[j] = NL}}
        Breaks(s) == {e \in s..Len(text) : text[e] = NL} \cup {Len(text) + 1}
        EndOf(s) == CHOOSE e \in Breaks(s) : \A d \in Breaks(s) : e <= d
        LineAt(s) == SubSeq(text, s, EndOf(s) - 1)
        good == {s \in starts : /\ EndOf(s) - s < 100
                                 /\ \E i \in s..(EndOf(s) - 1) : text[i] = "$"}
        chosen == IF good # {} THEN LineAt(CHOOSE s \in good : \A r \in good : s <= r)
                  ELSE IF EndOf(1) > 1 THEN LineAt(1)
                  ELSE <<"P", "r", "o", "b", "l", "e", "m">>
        bare == SelectSeq(chosen, LAMBDA c : c \notin {"*", "bq", "_", "#"})
        solid == {i \in DOMAIN bare : bare[i] \notin {" ", NL}}
    IN  IF solid = {} THEN <<>>
        ELSE SubSeq(bare, CHOOSE i \in solid : \A k \in solid : i <= k,
                          CHOOSE i \in solid : \A k \in solid : k <= i)

\* C27: every entry a solve creates stores the snippet of its own
\* fullSolution, and the entry alone determines it.
C27_SnippetDerived ==
    [][Inserted' =>
          Head(history').problemSnippet = SnippetOf(Head(history').fullSolution)]_vars

\* Witness of C27: the solved text opens with a math line of exactly 100
\* characters, and the stored snippet is the marked-up math line after it,
\* stripped and trimmed.
C27_SecondLineChosen ==
    /\ Inserted
    /\ Len(SplitLines(history[1].fullSolution)[1]) = SnippetMaxLen
    /\ history[1].problemSnippet = <<"$", "y", "$">>

\* C29: every rich-text copy that fails starts one plain-text copy; a
\* plain-text copy that fails notifies the user and leaves the copied flag,
\* the active problem, the solve outcome and the history as they were.
C29_CopyFallsBack ==
    [][/\ (lastEvent'.op = "copy" /\ lastEvent'.outcome = "threw") =>
              clipboard'.plain = clipboard.plain + 1
       /\ (lastEvent'.op = "richSettled" /\ ~lastEvent'.ok) =>
              clipboard'.plain = clipboard.plain + 1
       /\ (lastEvent'.op = "plainSettled" /\ ~lastEvent'.ok) =>
              /\ lastEvent'.alerted
              /\ UNCHANGED <<isCopied, imageBase64, imageUrl, solution, error,
                             history>>]_vars

====
